---- MODULE Spec2Model ----
(***************************************************************************)
(* Model of the location pipeline of Task-3/script.py: extract_locations,  *)
(* process_posts, filter_locations, get_coordinates (cache, retries) and   *)
(* get_location_coordinates.                                               *)
(*                                                                         *)
(* A Python str is a sequence of one-character strings, so that lower()    *)
(* and split() are computed and not assumed.  Coordinates are pairs of     *)
(* integers; Python's None is the empty tuple (both are falsy).            *)
(***************************************************************************)
EXTENDS Integers, Sequences, FiniteSets, TLC

(***************************************************************************)
(* Bounds of the model.                                                    *)
(***************************************************************************)
MaxPosts == 2

(***************************************************************************)
(* Strings.                                                                *)
(***************************************************************************)
UpperAlpha == <<"A","B","C","D","E","F","G","H","I","J","K","L","M",
                "N","O","P","Q","R","S","T","U","V","W","X","Y","Z">>
LowerAlpha == <<"a","b","c","d","e","f","g","h","i","j","k","l","m",
                "n","o","p","q","r","s","t","u","v","w","x","y","z">>

Whitespace == {" ", "\t", "\n", "\r"}

Range(f) == {f[i] : i \in DOMAIN f}

\* The lowercase letter of every uppercase letter.
LowerOf == [c \in Range(UpperAlpha) |->
               LowerAlpha[CHOOSE i \in DOMAIN UpperAlpha : UpperAlpha[i] = c]]

\* str.lower() on one character (ASCII letters).
lower_char(c) == IF c \in DOMAIN LowerOf THEN LowerOf[c] ELSE c

\* str.lower()
lower(s) == [i \in DOMAIN s |-> lower_char(s[i])]

\* str.split(): the maximal runs of non-whitespace characters, in order.
RECURSIVE split_from(_, _, _)
split_from(s, i, word) ==
    IF i > Len(s)
    THEN IF word = <<>> THEN <<>> ELSE <<word>>
    ELSE IF s[i] \in Whitespace
         THEN IF word = <<>>
              THEN split_from(s, i + 1, <<>>)
              ELSE <<word>> \o split_from(s, i + 1, <<>>)
         ELSE split_from(s, i + 1, Append(word, s[i]))

split(s) == split_from(s, 1, <<>>)

\* list(a_set): the elements of S in some order, each once.
ListsOf(S) ==
    {l \in [1..Cardinality(S) -> S] : Range(l) = S}

(***************************************************************************)
(* Place names and texts used as inputs.                                   *)
(***************************************************************************)
Texas == <<"T","e","x","a","s">>
Paris == <<"P","a","r","i","s">>
Meth == <<"M","e","t","h">>
NewYorkCity == <<"N","e","w"," ","Y","o","r","k"," ","C","i","t","y">>
LosAngeles == <<"L","o","s"," ","A","n","g","e","l","e","s">>
SanFrancisco == <<"S","a","n"," ","F","r","a","n","c","i","s","c","o">>
UnitedKingdom == <<"U","n","i","t","e","d"," ","K","i","n","g","d","o","m">>
UnitedStates == <<"U","n","i","t","e","d"," ","S","t","a","t","e","s">>
UnitedArabEmirates ==
    <<"U","n","i","t","e","d"," ","A","r","a","b"," ","E","m","i","r","a","t","e","s">>
California == <<"C","a","l","i","f","o","r","n","i","a">>
WashingtonDC == <<"W","a","s","h","i","n","g","t","o","n",","," ","D",".","C",".">>

\* The value returned when nothing is extracted (script.py line 63).
NoLocationFound ==
    <<"n","o"," ","l","o","c","a","t","i","o","n"," ","f","o","u","n","d">>

\* abbreviation_mapping of process_posts, in the order of the dict literal.
abbreviation_mapping ==
    << << <<"N","Y","C">>, NewYorkCity >>,
       << <<"L","A">>, LosAngeles >>,
       << <<"S","F">>, SanFrancisco >>,
       << <<"U","K">>, UnitedKingdom >>,
       << <<"U","S","A">>, UnitedStates >>,
       << <<"U","S">>, UnitedStates >>,
       << <<"U","A","E">>, UnitedArabEmirates >>,
       << <<"T","X">>, Texas >>,
       << <<"C","A">>, California >>,
       << <<"D","C">>, WashingtonDC >> >>

\* unwanted_words of filter_locations.
unwanted_words ==
    { NoLocationFound,
      <<"m","e","t","h">>,
      <<"k","i","n","d","a">>,
      <<"e","x","a","m","p","l","e">>,
      <<"c","o","u","n","t","r","y">>,
      <<"p","l","a","c","e">>,
      <<"w","o","r","l","d">>,
      <<"e","a","r","t","h">>,
      <<"e","v","e","r","y","w","h","e","r","e">>,
      <<"p","h","o","b","i","a">>,
      <<"m","c","a","s">> }

(***************************************************************************)
(* extract_locations (script.py lines 47-63).                              *)
(***************************************************************************)
\* {key.lower(): val for key, val in abbreviation_mapping.items()}: a later
\* item overwrites an earlier one with the same lowercase key.
RECURSIVE lower_abbreviation_mapping(_)
lower_abbreviation_mapping(mapping) ==
    IF mapping = <<>>
    THEN <<>>
    ELSE LET n == Len(mapping)
             rest == lower_abbreviation_mapping(SubSeq(mapping, 1, n - 1))
         IN  (lower(mapping[n][1]) :> mapping[n][2]) @@ rest

\* A variant that looks the word up as written, without lower().
abbreviation_matches_cased(text, mapping) ==
    LET words == split(text)
        table == lower_abbreviation_mapping(mapping)
    IN  {table[words[i]] : i \in {j \in DOMAIN words : words[j] \in DOMAIN table}}

\* The loop over text.split(): the expansions added to locations.
abbreviation_matches(text, mapping) ==
    LET words == split(text)
        table == lower_abbreviation_mapping(mapping)
    IN  {table[lower(words[i])] :
            i \in {j \in DOMAIN words : lower(words[j]) \in DOMAIN table}}

\* A variant that returns list(locations) even when locations is empty.
extract_locations_no_sentinel(text, ents, mapping) ==
    ListsOf(ents \cup abbreviation_matches(text, mapping))

\* A variant that collects the mentions in a list: entities, then expansions.
extract_locations_as_list(text, ents, mapping) ==
    LET locations == ents \cup abbreviation_matches(text, mapping)
    IN  IF locations # {}
        THEN {a \o b : a \in ListsOf(ents),
                       b \in ListsOf(abbreviation_matches(text, mapping))}
        ELSE {<<NoLocationFound>>}

\* extract_locations: ents is {ent.text for ent in doc.ents if ent.label_ ==
\* "GPE"}.  The result is the set of lists the call may return: the order of
\* list(a_set) is not fixed.
extract_locations(text, ents, mapping) ==
    LET locations == ents \cup abbreviation_matches(text, mapping)
    IN  IF locations # {}
        THEN ListsOf(locations)
        ELSE {<<NoLocationFound>>}

(***************************************************************************)
(* filter_locations (script.py lines 201-218).                             *)
(***************************************************************************)
\* [loc for sublist in all_locations for loc in sublist]
RECURSIVE flatten(_)
flatten(lists) ==
    IF lists = <<>> THEN <<>> ELSE Head(lists) \o flatten(Tail(lists))

\* collections.Counter(list): one entry per distinct element, in the order of
\* first occurrence, with the number of occurrences.
RECURSIVE Counter(_)
Counter(list) ==
    IF list = <<>>
    THEN <<>>
    ELSE LET n == Len(list)
             c == Counter(SubSeq(list, 1, n - 1))
             x == list[n]
         IN  IF \E i \in DOMAIN c : c[i].location = x
             THEN [i \in DOMAIN c |->
                     IF c[i].location = x
                     THEN [c[i] EXCEPT !.count = @ + 1]
                     ELSE c[i]]
             ELSE Append(c, [location |-> x, count |-> 1])

\* A variant that compares loc itself, not loc.lower(), with the stop list.
filter_locations_cased(lists) ==
    LET flat_locations == flatten(lists)
        keep(loc) == loc \notin unwanted_words
    IN  Counter(SelectSeq(flat_locations, keep))

filter_locations(lists) ==
    LET flat_locations == flatten(lists)
        keep(loc) == lower(loc) \notin unwanted_words
    IN  Counter(SelectSeq(flat_locations, keep))

(***************************************************************************)
(* The collaborators: the recognizer (spaCy) and the geocoder (Nominatim). *)
(***************************************************************************)
\* The post contents the model draws from.
Texts ==
    { <<"T","e","x","a","s"," ","T","X">>,         \* "Texas TX"
      <<"M","e","t","h">>,                         \* "Meth"
      <<"n","Y","c">>,                             \* "nYc"
      <<"P","a","r","i","s"," "," ","t","x">>,     \* "Paris  tx"
      <<"N","Y","C",",","\t","m","e","t","h">> }   \* "NYC,\tmeth"

\* The words the recognizer may tag as GPE.
GPEVocabulary == {Texas, Paris, Meth}

\* nlp(text), reduced to the texts of its GPE entities: any set of words of
\* the text that are in the vocabulary.  The recognizer is a black box.
nlp(text) == SUBSET (Range(split(text)) \cap GPEVocabulary)

None == <<>>

\* The coordinates the geocoder may answer for a name (latitude, longitude).
GeoAnswers(name) ==
    IF name = Texas THEN {<<31, -100>>}
    ELSE IF name = Paris THEN {<<48, 2>>, <<33, -95>>}
    ELSE IF name = NewYorkCity THEN {<<40, -74>>}
    ELSE {}

\* What one geolocator.geocode(location) call may do: return a Location,
\* raise GeocoderTimedOut, raise another exception, or return None.
GeocodeOutcomes(name) ==
    {[out |-> "coords", val |-> c] : c \in GeoAnswers(name)}
    \cup {[out |-> o, val |-> None] : o \in {"timeout", "error", "none"}}

\* The names the resolver is called with when it is exercised on its own.
ResolverNames == {Texas, Paris}

(***************************************************************************)
(* State.                                                                  *)
(***************************************************************************)
VARIABLES
    pc,                   \* position in main(), or "resolver"
    posts,                \* the posts: [content, location]
    all_locations,        \* process_posts: the list of location lists
    location_counts,      \* the Counter returned by filter_locations
    idx,                  \* get_location_coordinates: items done
    location_coordinates, \* get_location_coordinates: the result list
    location_cache,       \* the cache of get_coordinates
    gc_pc,                \* get_coordinates: "idle", "check", "loop", "ret"
    location,             \* get_coordinates: its argument
    attempt,              \* get_coordinates: iterations of range(3) begun
    coords,               \* get_coordinates: the value returned
    gpe,                  \* history: the recognizer's answer for each post
    trace,                \* history: geocode calls and sleeps of this call
    cache_before,         \* history: the cache when this call began
    run_log,              \* history: the calls and sleeps of the run
    prev                  \* history: the resolver's previous call

vars == <<pc, posts, all_locations, location_counts, idx,
          location_coordinates, location_cache, gc_pc, location, attempt,
          coords, gpe, trace, cache_before, run_log, prev>>

main_vars == <<pc, posts, all_locations, location_counts, idx,
               location_coordinates, gpe, run_log>>

gc_vars == <<location_cache, gc_pc, location, attempt, coords, trace,
             cache_before>>

\* A variant with one iteration more.
RetryBudget_OneMore == 3 + 1

\* range(3) of get_coordinates.
RetryBudget == 3
\* time.sleep(2) of get_coordinates.
BackoffSecs == 2
\* time.sleep(2) of get_location_coordinates.
RateLimitSecs == 2

PostSeqs == UNION {[1..n -> Texts] : n \in 0..MaxPosts}

InitFrame ==
    /\ all_locations = <<>>
    /\ location_counts = <<>>
    /\ idx = 0
    /\ location_coordinates = <<>>
    /\ location_cache = <<>>
    /\ gc_pc = "idle"
    /\ location = <<>>
    /\ attempt = 0
    /\ coords = None
    /\ gpe = <<>>
    /\ trace = <<>>
    /\ cache_before = <<>>
    /\ run_log = <<>>
    /\ prev = <<>>

\* main() after read_dataset: the posts have a content and no location yet.
Init ==
    /\ pc = "process_posts"
    /\ \E contents \in PostSeqs :
          posts = [k \in DOMAIN contents |->
                      [content |-> contents[k], location |-> <<>>]]
    /\ InitFrame

(***************************************************************************)
(* process_posts and filter_locations.                                     *)
(***************************************************************************)
\* One iteration of the loop of process_posts (lines 81-85).
ProcessPost ==
    /\ pc = "process_posts"
    /\ Len(all_locations) < Len(posts)
    /\ LET k == Len(all_locations) + 1
           text == posts[k].content
       IN  \E ents \in nlp(text) :
           \E locations \in extract_locations(text, ents, abbreviation_mapping) :
              /\ all_locations' = Append(all_locations, locations)
              /\ posts' = [posts EXCEPT ![k].location = locations]
              /\ gpe' = Append(gpe, ents)
    /\ UNCHANGED <<pc, location_counts, idx, location_coordinates, run_log,
                   prev>>
    /\ UNCHANGED gc_vars

\* process_posts returns; main calls filter_locations and then
\* get_location_coordinates, which starts with an empty cache (line 167).
FilterLocations ==
    /\ pc = "process_posts"
    /\ Len(all_locations) = Len(posts)
    /\ location_counts' = filter_locations(all_locations)
    /\ pc' = "get_location_coordinates"
    /\ idx' = 0
    /\ location_coordinates' = <<>>
    /\ location_cache' = <<>>
    /\ UNCHANGED <<posts, all_locations, gpe, run_log, prev, gc_pc, location,
                   attempt, coords, trace, cache_before>>

(***************************************************************************)
(* get_coordinates (script.py lines 88-107).                               *)
(***************************************************************************)
GeocodeEvent(o) == [ev |-> "geocode", out |-> o.out, val |-> o.val]
SleepEvent(secs) == [ev |-> "sleep", secs |-> secs]

\* A variant without the cache test of line 90.
GC_CacheCheck_NoTest ==
    /\ gc_pc = "check"
    /\ coords' = coords
    /\ gc_pc' = "loop"
    /\ attempt' = 0
    /\ UNCHANGED <<location_cache, location, trace, cache_before>>
    /\ UNCHANGED <<main_vars, prev>>

\* Lines 90-91: a cached location is returned at once; otherwise the loop
\* over range(3) begins.
GC_CacheCheck ==
    /\ gc_pc = "check"
    /\ IF location \in DOMAIN location_cache
       THEN /\ coords' = location_cache[location]
            /\ gc_pc' = "ret"
       ELSE /\ coords' = coords
            /\ gc_pc' = "loop"
    /\ attempt' = 0
    /\ UNCHANGED <<location_cache, location, trace, cache_before>>
    /\ UNCHANGED <<main_vars, prev>>

\* The end of one iteration that did not return: the next iteration, or
\* line 107 when range(3) is exhausted.
NextIteration ==
    /\ attempt' = attempt + 1
    /\ IF attempt + 1 < RetryBudget
       THEN /\ gc_pc' = "loop"
            /\ coords' = coords
       ELSE /\ gc_pc' = "ret"
            /\ coords' = None

\* A variant that does not store the coordinates (line 98 missing).
GC_Attempt_NoStore ==
    /\ gc_pc = "loop"
    /\ attempt < RetryBudget
    /\ \E o \in GeocodeOutcomes(location) :
          CASE o.out = "coords" ->
                 /\ trace' = Append(trace, GeocodeEvent(o))
                 /\ location_cache' = location_cache
                 /\ coords' = o.val
                 /\ gc_pc' = "ret"
                 /\ attempt' = attempt + 1
            [] o.out = "none" ->
                 /\ trace' = Append(trace, GeocodeEvent(o))
                 /\ location_cache' = location_cache
                 /\ NextIteration
            [] o.out = "timeout" ->
                 /\ trace' = trace \o <<GeocodeEvent(o), SleepEvent(BackoffSecs)>>
                 /\ location_cache' = location_cache
                 /\ NextIteration
            [] o.out = "error" ->
                 /\ trace' = Append(trace, GeocodeEvent(o))
                 /\ location_cache' = location_cache
                 /\ coords' = None
                 /\ gc_pc' = "ret"
                 /\ attempt' = attempt + 1
    /\ UNCHANGED <<location, cache_before>>
    /\ UNCHANGED <<main_vars, prev>>

\* A variant whose handler of other exceptions does not return (line 105
\* missing): the loop goes on.
GC_Attempt_ErrorContinues ==
    /\ gc_pc = "loop"
    /\ attempt < RetryBudget
    /\ \E o \in GeocodeOutcomes(location) :
          CASE o.out = "coords" ->
                 /\ trace' = Append(trace, GeocodeEvent(o))
                 /\ location_cache' = (location :> o.val) @@ location_cache
                 /\ coords' = o.val
                 /\ gc_pc' = "ret"
                 /\ attempt' = attempt + 1
            [] o.out = "none" ->
                 /\ trace' = Append(trace, GeocodeEvent(o))
                 /\ location_cache' = location_cache
                 /\ NextIteration
            [] o.out = "timeout" ->
                 /\ trace' = trace \o <<GeocodeEvent(o), SleepEvent(BackoffSecs)>>
                 /\ location_cache' = location_cache
                 /\ NextIteration
            [] o.out = "error" ->
                 /\ trace' = Append(trace, GeocodeEvent(o))
                 /\ location_cache' = location_cache
                 /\ NextIteration
    /\ UNCHANGED <<location, cache_before>>
    /\ UNCHANGED <<main_vars, prev>>

\* A variant that stores None for a name whose lookup raised an exception.
GC_Attempt_CachesFailure ==
    /\ gc_pc = "loop"
    /\ attempt < RetryBudget
    /\ \E o \in GeocodeOutcomes(location) :
          CASE o.out = "coords" ->
                 /\ trace' = Append(trace, GeocodeEvent(o))
                 /\ location_cache' = (location :> o.val) @@ location_cache
                 /\ coords' = o.val
                 /\ gc_pc' = "ret"
                 /\ attempt' = attempt + 1
            [] o.out = "none" ->
                 /\ trace' = Append(trace, GeocodeEvent(o))
                 /\ location_cache' = location_cache
                 /\ NextIteration
            [] o.out = "timeout" ->
                 /\ trace' = trace \o <<GeocodeEvent(o), SleepEvent(BackoffSecs)>>
                 /\ location_cache' = location_cache
                 /\ NextIteration
            [] o.out = "error" ->
                 /\ trace' = Append(trace, GeocodeEvent(o))
                 /\ location_cache' = (location :> None) @@ location_cache
                 /\ coords' = None
                 /\ gc_pc' = "ret"
                 /\ attempt' = attempt + 1
    /\ UNCHANGED <<location, cache_before>>
    /\ UNCHANGED <<main_vars, prev>>

\* Lines 93-107: one iteration of the loop, with the geocode call and what
\* follows from its outcome.
GC_Attempt ==
    /\ gc_pc = "loop"
    /\ attempt < RetryBudget
    /\ \E o \in GeocodeOutcomes(location) :
          CASE o.out = "coords" ->
                 /\ trace' = Append(trace, GeocodeEvent(o))
                 /\ location_cache' = (location :> o.val) @@ location_cache
                 /\ coords' = o.val
                 /\ gc_pc' = "ret"
                 /\ attempt' = attempt + 1
            [] o.out = "none" ->
                 /\ trace' = Append(trace, GeocodeEvent(o))
                 /\ location_cache' = location_cache
                 /\ NextIteration
            [] o.out = "timeout" ->
                 /\ trace' = trace \o <<GeocodeEvent(o), SleepEvent(BackoffSecs)>>
                 /\ location_cache' = location_cache
                 /\ NextIteration
            [] o.out = "error" ->
                 /\ trace' = Append(trace, GeocodeEvent(o))
                 /\ location_cache' = location_cache
                 /\ coords' = None
                 /\ gc_pc' = "ret"
                 /\ attempt' = attempt + 1
    /\ UNCHANGED <<location, cache_before>>
    /\ UNCHANGED <<main_vars, prev>>

\* The caller's side of a call get_coordinates(geolocator, name, cache).
Call(name) ==
    /\ gc_pc = "idle"
    /\ gc_pc' = "check"
    /\ location' = name
    /\ trace' = <<>>
    /\ cache_before' = location_cache
    /\ UNCHANGED <<location_cache, attempt, coords>>

(***************************************************************************)
(* get_location_coordinates (script.py lines 163-175).                     *)
(***************************************************************************)
\* Lines 170-171: the next item of location_counts.items().
GLC_Call ==
    /\ pc = "get_location_coordinates"
    /\ idx < Len(location_counts)
    /\ Call(location_counts[idx + 1].location)
    /\ UNCHANGED <<main_vars, prev>>

\* What get_coordinates returned for the name, and the geocode calls it made.
ResolveEvent ==
    [ev |-> "resolve", location |-> location, coords |-> coords,
     calls |-> Len(SelectSeq(trace, LAMBDA e : e.ev = "geocode"))]

\* A variant that asks again for a name that did not resolve.
GLC_Append_AskAgain ==
    /\ pc = "get_location_coordinates"
    /\ gc_pc = "ret"
    /\ location_coordinates' =
          IF coords # None
          THEN Append(location_coordinates,
                      coords \o <<location_counts[idx + 1].count>>)
          ELSE location_coordinates
    /\ run_log' = run_log \o <<ResolveEvent, SleepEvent(RateLimitSecs)>>
    /\ idx' = IF coords # None THEN idx + 1 ELSE idx
    /\ gc_pc' = "idle"
    /\ UNCHANGED <<pc, posts, all_locations, location_counts, gpe, prev>>
    /\ UNCHANGED <<location_cache, location, attempt, coords, trace,
                   cache_before>>

\* A variant that ends the loop at the first name that did not resolve.
GLC_Append_StopOnFailure ==
    /\ pc = "get_location_coordinates"
    /\ gc_pc = "ret"
    /\ location_coordinates' =
          IF coords # None
          THEN Append(location_coordinates,
                      coords \o <<location_counts[idx + 1].count>>)
          ELSE location_coordinates
    /\ run_log' = run_log \o <<ResolveEvent, SleepEvent(RateLimitSecs)>>
    /\ idx' = idx + 1
    /\ gc_pc' = "idle"
    /\ pc' = IF coords # None THEN pc ELSE "done"
    /\ UNCHANGED <<posts, all_locations, location_counts, gpe, prev>>
    /\ UNCHANGED <<location_cache, location, attempt, coords, trace,
                   cache_before>>

\* A variant whose sleep is inside the if of line 172.
GLC_Append_SleepOnSuccess ==
    /\ pc = "get_location_coordinates"
    /\ gc_pc = "ret"
    /\ location_coordinates' =
          IF coords # None
          THEN Append(location_coordinates,
                      coords \o <<location_counts[idx + 1].count>>)
          ELSE location_coordinates
    /\ run_log' =
          IF coords # None
          THEN run_log \o <<ResolveEvent, SleepEvent(RateLimitSecs)>>
          ELSE Append(run_log, ResolveEvent)
    /\ idx' = idx + 1
    /\ gc_pc' = "idle"
    /\ UNCHANGED <<pc, posts, all_locations, location_counts, gpe, prev>>
    /\ UNCHANGED <<location_cache, location, attempt, coords, trace,
                   cache_before>>

\* Lines 172-174: the point is appended when coords is truthy; then the
\* sleep, and the next item.
GLC_Append ==
    /\ pc = "get_location_coordinates"
    /\ gc_pc = "ret"
    /\ location_coordinates' =
          IF coords # None
          THEN Append(location_coordinates,
                      coords \o <<location_counts[idx + 1].count>>)
          ELSE location_coordinates
    /\ run_log' = run_log \o <<ResolveEvent, SleepEvent(RateLimitSecs)>>
    /\ idx' = idx + 1
    /\ gc_pc' = "idle"
    /\ UNCHANGED <<pc, posts, all_locations, location_counts, gpe, prev>>
    /\ UNCHANGED <<location_cache, location, attempt, coords, trace,
                   cache_before>>

\* Line 175.
GLC_Return ==
    /\ pc = "get_location_coordinates"
    /\ gc_pc = "idle"
    /\ idx = Len(location_counts)
    /\ pc' = "done"
    /\ UNCHANGED <<posts, all_locations, location_counts, idx,
                   location_coordinates, gpe, run_log, prev>>
    /\ UNCHANGED gc_vars

(***************************************************************************)
(* The resolver on its own: get_coordinates called again and again, with   *)
(* any names, on one cache.                                                *)
(***************************************************************************)
ResolverInit ==
    /\ pc = "resolver"
    /\ posts = <<>>
    /\ InitFrame

ResolverCall ==
    /\ pc = "resolver"
    /\ \E name \in ResolverNames : Call(name)
    /\ UNCHANGED <<main_vars, prev>>

ResolverReturn ==
    /\ pc = "resolver"
    /\ gc_pc = "ret"
    /\ gc_pc' = "idle"
    /\ prev' = << [location |-> location, coords |-> coords, trace |-> trace] >>
    /\ UNCHANGED <<location_cache, location, attempt, coords, trace,
                   cache_before>>
    /\ UNCHANGED main_vars

(***************************************************************************)
(* Specifications.                                                         *)
(***************************************************************************)
Next ==
    \/ ProcessPost
    \/ FilterLocations
    \/ GLC_Call
    \/ GC_CacheCheck
    \/ GC_Attempt
    \/ GLC_Append
    \/ GLC_Return

Spec == Init /\ [][Next]_vars

\* process_posts and filter_locations alone: main() up to its step 3.
ExtractNext ==
    \/ ProcessPost
    \/ FilterLocations

ExtractSpec == Init /\ [][ExtractNext]_vars

ResolverNext ==
    \/ ResolverCall
    \/ GC_CacheCheck
    \/ GC_Attempt
    \/ ResolverReturn

ResolverSpec == ResolverInit /\ [][ResolverNext]_vars

(***************************************************************************)
(* Properties of get_coordinates, checked under ResolverSpec.              *)
(***************************************************************************)
IsGeocode(e) == e.ev = "geocode"
IsSleep(e) == e.ev = "sleep"

\* The geocode calls and the sleeps of the current call.
GeocodeCalls == SelectSeq(trace, IsGeocode)
Sleeps == SelectSeq(trace, IsSleep)

\* The call in progress (or just returned) follows a call with the same name.
SameNameAgain ==
    /\ pc = "resolver"
    /\ prev # <<>>
    /\ gc_pc \in {"loop", "ret"}
    /\ prev[1].location = location

\* C1 as stated: two calls in a row with the same name and cache have the
\* same outcome, whatever the geocoder did, and the second makes no geocode
\* call.
C1_SameOutcomeAlways ==
    SameNameAgain =>
        /\ gc_pc = "ret"
        /\ coords = prev[1].coords
        /\ GeocodeCalls = <<>>

\* C1, amended: when a call returns coordinates, the next call with the same
\* name and cache returns the same coordinates and makes no geocode call.
C1_SameOutcomeAfterSuccess ==
    (SameNameAgain /\ prev[1].coords # None) =>
        /\ gc_pc = "ret"
        /\ coords = prev[1].coords
        /\ GeocodeCalls = <<>>

\* The first call looked Paris up (two answers are possible) and got
\* coordinates after a timeout; the second call has returned.
C1_Witness ==
    /\ SameNameAgain
    /\ gc_pc = "ret"
    /\ location = Paris
    /\ prev[1].coords = <<33, -95>>
    /\ Len(prev[1].trace) = 3

\* C2: a call with a name that is a key of the cache returns the cached value,
\* makes no geocode call, does not sleep and leaves the cache as it was.
C2_CacheHit ==
    (pc = "resolver" /\ gc_pc \in {"loop", "ret"}
        /\ location \in DOMAIN cache_before) =>
        /\ gc_pc = "ret"
        /\ coords = cache_before[location]
        /\ GeocodeCalls = <<>>
        /\ Sleeps = <<>>
        /\ location_cache = cache_before

\* A hit on a cache that holds both names.
C2_Witness ==
    /\ pc = "resolver"
    /\ gc_pc = "ret"
    /\ DOMAIN cache_before = {Texas, Paris}
    /\ location = Texas
    /\ coords = <<31, -100>>

\* Every geocode call of the current call timed out, and there was one.
AllTimedOut ==
    /\ GeocodeCalls # <<>>
    /\ \A i \in DOMAIN GeocodeCalls : GeocodeCalls[i].out = "timeout"

\* C3: when every attempt times out, the call makes exactly 3 geocode calls:
\* it goes on while it has made fewer, and it has returned None, with no cache
\* entry for the name, once it has made 3.
C3_RetryBound ==
    (pc = "resolver" /\ AllTimedOut) =>
        /\ Len(GeocodeCalls) <= 3
        /\ Len(GeocodeCalls) < 3 => (gc_pc = "loop" /\ ENABLED GC_Attempt)
        /\ Len(GeocodeCalls) = 3 =>
              /\ gc_pc \in {"ret", "idle"}
              /\ coords = None
              /\ location \notin DOMAIN location_cache

\* Three timeouts, and the call has returned.
C3_Witness ==
    /\ pc = "resolver"
    /\ AllTimedOut
    /\ Len(GeocodeCalls) = 3
    /\ gc_pc = "ret"
    /\ location_cache # <<>>

\* The geocode calls of trace t that raised an exception other than a timeout.
Errors(t) == {i \in DOMAIN t : IsGeocode(t[i]) /\ t[i].out = "error"}

IsResolve(e) == e.ev = "resolve"

\* The get_coordinates calls of the run that have returned, in order.
Resolves == SelectSeq(run_log, IsResolve)

RECURSIVE SumCalls(_)
SumCalls(rs) == IF rs = <<>> THEN 0 ELSE Head(rs).calls + SumCalls(Tail(rs))

\* The geocode calls made so far in the run for the name n.
Lookups(n) ==
    LET ofName(e) == e.location = n
    IN  SumCalls(SelectSeq(Resolves, ofName))
          + (IF gc_pc # "idle" /\ location = n THEN Len(GeocodeCalls) ELSE 0)

\* The number of get_coordinates calls begun so far in the run for the name n.
Sequences(n) ==
    LET ofName(e) == e.location = n
    IN  Len(SelectSeq(Resolves, ofName))
          + (IF gc_pc # "idle" /\ location = n THEN 1 ELSE 0)

\* All the geocode calls made so far in the run.
TotalLookups ==
    SumCalls(Resolves) + (IF gc_pc # "idle" THEN Len(GeocodeCalls) ELSE 0)

Keys(counter) == {counter[i].location : i \in DOMAIN counter}

\* C5: in one run of get_location_coordinates every name is resolved at most
\* once and the geocoder is called at most 3 times for it, so at most 3*N
\* times for the N names of the mapping, and for no other name; and the run
\* goes on until it is done.
C5_OneSequencePerName ==
    pc \in {"get_location_coordinates", "done"} =>
        /\ \A n \in Keys(location_counts) :
              /\ Sequences(n) <= 1
              /\ Lookups(n) <= 3
        /\ gc_pc # "idle" => location \in Keys(location_counts)
        /\ Len(Resolves) <= Len(location_counts)
        /\ TotalLookups <= 3 * Len(location_counts)
        /\ pc = "get_location_coordinates" =>
              ENABLED (GLC_Call \/ GC_CacheCheck \/ GC_Attempt \/ GLC_Append
                         \/ GLC_Return)

\* A finished run over two names, with 3 geocode calls for each.
C5_Witness ==
    /\ pc = "done"
    /\ Len(location_counts) = 2
    /\ \A n \in Keys(location_counts) : Lookups(n) = 3
    /\ TotalLookups = 6

IsStopWord(loc) == lower(loc) \in unwanted_words

\* C6: the mapping returned by filter_locations has no key whose lowercase is
\* in the stop list; no such name is given to the geocoder, and none has a
\* point.
C6_NoStopWords ==
    pc # "process_posts" =>
        /\ \A i \in DOMAIN location_counts :
              ~ IsStopWord(location_counts[i].location)
        /\ gc_pc # "idle" => ~ IsStopWord(location)
        /\ \A i \in DOMAIN Resolves : ~ IsStopWord(Resolves[i].location)
        /\ Len(location_coordinates) <= Len(Resolves)
        /\ Len(Resolves) <= Len(location_counts)

\* The extraction produced "Meth" for one post and Texas for the other, and
\* the run ended with the one point of Texas.
C6_Witness ==
    /\ pc = "done"
    /\ \E k \in DOMAIN all_locations : all_locations[k] = <<Meth>>
    /\ Len(run_log) = 2
    /\ location_coordinates = << <<31, -100, 1>> >>

\* The points for the first k items, given what get_coordinates returned.
RECURSIVE PointsUpTo(_)
PointsUpTo(k) ==
    IF k = 0
    THEN <<>>
    ELSE IF Resolves[k].coords # None
         THEN Append(PointsUpTo(k - 1),
                     << Resolves[k].coords[1], Resolves[k].coords[2],
                        location_counts[k].count >>)
         ELSE PointsUpTo(k - 1)

\* C7: get_location_coordinates calls get_coordinates for the items in the
\* order of the mapping and returns the points (lat, lon, count) of those
\* that resolved, in that order; a name that did not resolve adds nothing
\* and does not end the loop.
C7_PointsInOrder ==
    pc \in {"get_location_coordinates", "done"} =>
        /\ Len(Resolves) = idx
        /\ idx <= Len(location_counts)
        /\ \A k \in 1..idx : Resolves[k].location = location_counts[k].location
        /\ location_coordinates = PointsUpTo(idx)
        /\ pc = "done" => idx = Len(location_counts)

\* A run in which the first name did not resolve and the second did, with
\* weight 2.
C7_Witness ==
    /\ pc = "done"
    /\ Len(Resolves) = 2
    /\ Resolves[1].coords = None
    /\ Resolves[2].coords # None
    /\ Len(location_coordinates) = 1
    /\ location_coordinates[1][3] = 2

(***************************************************************************)
(* Properties of extract_locations, process_posts and filter_locations,    *)
(* checked under ExtractSpec.                                              *)
(***************************************************************************)
\* Two characters that are equal, or the upper and the lower case of one
\* letter.
SameLetter(c, d) ==
    \/ c = d
    \/ \E i \in DOMAIN UpperAlpha : {c, d} = {UpperAlpha[i], LowerAlpha[i]}

\* The word w is the abbreviation a in some mix of upper and lower case.
SameIgnoringCase(w, a) ==
    /\ Len(w) = Len(a)
    /\ \A i \in DOMAIN w : SameLetter(w[i], a[i])

\* The expansions of the abbreviations that are words of the text.
Expansions(text) ==
    {abbreviation_mapping[i][2] :
        i \in {j \in DOMAIN abbreviation_mapping :
                 \E w \in Range(split(text)) :
                    SameIgnoringCase(w, abbreviation_mapping[j][1])}}

\* C8: the list extract_locations returns is never empty: it is the sentinel
\* alone when the recognizer found no GPE entity and no word of the text is an
\* abbreviation, and otherwise it holds each recognized entity and each
\* expansion once, and nothing else.  After process_posts every post has a
\* non-empty location.
C8_NeverEmpty ==
    /\ \A k \in DOMAIN all_locations :
          LET l == all_locations[k]
              mentions == gpe[k] \cup Expansions(posts[k].content)
          IN  /\ l # <<>>
              /\ posts[k].location = l
              /\ IF mentions = {}
                 THEN l = <<NoLocationFound>>
                 ELSE /\ Range(l) = mentions
                      /\ Len(l) = Cardinality(mentions)
    /\ pc # "process_posts" =>
          \A k \in DOMAIN posts : posts[k].location # <<>>

\* One post got the sentinel and another a list of two names.
C8_Witness ==
    /\ pc # "process_posts"
    /\ \E k \in DOMAIN posts : posts[k].location = <<NoLocationFound>>
    /\ \E k \in DOMAIN posts : posts[k].location = <<Texas, Paris>>

\* C9: when a word of the text is an abbreviation of the table, in any mix
\* of upper and lower case, the list returned holds its expansion, whatever
\* the recognizer found.
C9_AbbreviationExpanded ==
    \A k \in DOMAIN all_locations :
       \A w \in Range(split(posts[k].content)) :
          \A i \in DOMAIN abbreviation_mapping :
             SameIgnoringCase(w, abbreviation_mapping[i][1]) =>
                abbreviation_mapping[i][2] \in Range(all_locations[k])

\* "nYc" gave New York City, and "Paris  tx" gave Texas beside the entity
\* Paris.
C9_Witness ==
    /\ Len(all_locations) = 2
    /\ posts[1].content = <<"n","Y","c">>
    /\ all_locations[1] = <<NewYorkCity>>
    /\ gpe[2] = {Paris}
    /\ Texas \in Range(all_locations[2])

\* The count of the name n in the mapping returned by filter_locations.
CountOf(n) ==
    IF n \in Keys(location_counts)
    THEN location_counts[CHOOSE i \in DOMAIN location_counts :
                            location_counts[i].location = n].count
    ELSE 0

RECURSIVE SumOver(_, _)
SumOver(f, S) ==
    IF S = {} THEN 0
    ELSE LET x == CHOOSE y \in S : TRUE IN f[x] + SumOver(f, S \ {x})

\* The names that are expansions of the abbreviation table.
ExpansionNames ==
    {abbreviation_mapping[i][2] : i \in DOMAIN abbreviation_mapping}

\* C10 as stated: a post that mentions a name as an entity and through an
\* abbreviation counts twice for it: the count of a name is the number of
\* its entity mentions plus the number of its abbreviation mentions.
C10_CountedTwice ==
    pc # "process_posts" =>
        \A n \in ExpansionNames :
           CountOf(n) =
              SumOver([k \in DOMAIN posts |->
                         (IF n \in gpe[k] THEN 1 ELSE 0)
                           + (IF n \in Expansions(posts[k].content)
                              THEN 1 ELSE 0)],
                      DOMAIN posts)

\* C10, amended: a post that mentions a name as an entity and through an
\* abbreviation counts once for it: the count of a name is the number of
\* posts that mention it in either way.
C10_CountedOnce ==
    pc # "process_posts" =>
        \A n \in ExpansionNames :
           CountOf(n) =
              Cardinality({k \in DOMAIN posts :
                             n \in gpe[k] \cup Expansions(posts[k].content)})

\* Two posts, each with the entity Texas and the abbreviation TX: the count
\* of Texas is 2.
C10_Witness ==
    /\ pc # "process_posts"
    /\ Len(posts) = 2
    /\ \A k \in DOMAIN posts :
          Texas \in gpe[k] \cap Expansions(posts[k].content)
    /\ CountOf(Texas) = 2

(***************************************************************************)
(* The order of lookups and waits in get_coordinates, checked under        *)
(* ResolverSpec.                                                           *)
(***************************************************************************)
\* The geocode call at position i of trace t is followed by another geocode
\* call of the same get_coordinates call.
FollowedByLookup(t, i) ==
    /\ IsGeocode(t[i])
    /\ \E j \in DOMAIN t : j > i /\ IsGeocode(t[j])

\* C11: within one call of get_coordinates a geocode call is followed by
\* another one only if it timed out, and then a sleep of 2 comes between the
\* two; a geocode call that returned coordinates, raised another exception or
\* returned no coordinates is followed by no other geocode call.
C11_RetryOnlyAfterTimeout ==
    pc = "resolver" =>
        \A i \in DOMAIN trace :
           FollowedByLookup(trace, i) =>
              /\ trace[i].out = "timeout"
              /\ IsSleep(trace[i + 1])
              /\ trace[i + 1].secs = 2

(***************************************************************************)
(* The delay between names in get_location_coordinates, checked under      *)
(* Spec.                                                                   *)
(***************************************************************************)
\* The sleeps of get_location_coordinates so far in the run.
RunSleeps == SelectSeq(run_log, IsSleep)

TimedOut(e) == e.out = "timeout"

\* C12: get_location_coordinates sleeps 2 once for every name, after the
\* get_coordinates call of the name has returned, with coordinates or with
\* None, and before the call of the next name; it does not sleep while a call
\* is in progress, where the only sleeps are those after timeouts; a run over
\* N names has N such sleeps.
C12_OneDelayPerName ==
    pc \in {"get_location_coordinates", "done"} =>
        /\ Len(run_log) = 2 * idx
        /\ \A k \in 1..idx :
              /\ IsResolve(run_log[2 * k - 1])
              /\ run_log[2 * k - 1].location = location_counts[k].location
              /\ IsSleep(run_log[2 * k])
              /\ run_log[2 * k].secs = 2
        /\ Len(RunSleeps) = idx
        /\ gc_pc # "idle" =>
              /\ idx < Len(location_counts)
              /\ Len(Sleeps) = Len(SelectSeq(GeocodeCalls, TimedOut))
        /\ pc = "done" => Len(RunSleeps) = Len(location_counts)

\* A finished run over two names: the first took 3 geocode calls and did not
\* resolve, the second resolved; two sleeps.
C12_Witness ==
    /\ pc = "done"
    /\ Len(location_counts) = 2
    /\ Len(RunSleeps) = 2
    /\ Resolves[1].calls = 3
    /\ Resolves[1].coords = None
    /\ Resolves[2].coords # None

(***************************************************************************)
(* The cache of get_coordinates, checked under ResolverSpec.               *)
(***************************************************************************)
\* The geocode calls of trace t that returned coordinates.
Successes(t) == {i \in DOMAIN t : IsGeocode(t[i]) /\ t[i].out = "coords"}

\* What one step may do to the cache.
CacheStep ==
    \* an entry is never removed or overwritten
    /\ \A n \in DOMAIN location_cache :
          /\ n \in DOMAIN location_cache'
          /\ location_cache'[n] = location_cache[n]
    \* an entry is added only for the name being looked up, by a geocode
    \* call that returned these coordinates
    /\ \A n \in DOMAIN location_cache' \ DOMAIN location_cache :
          /\ n = location
          /\ Len(trace') = Len(trace) + 1
          /\ Successes(trace') = {Len(trace')}
          /\ location_cache'[n] = trace'[Len(trace')].val
    \* a geocode call returns coordinates only for a name that has no entry,
    \* so it is the first for the name, and its coordinates are stored
    /\ Successes(trace') \ Successes(trace) # {} =>
          /\ location \notin DOMAIN location_cache
          /\ location \in DOMAIN location_cache'
    \* a call that returns None leaves the cache as it was when it began
    /\ (gc_pc' = "ret" /\ coords' = None) => location_cache' = cache_before'

\* C13: after any sequence of get_coordinates calls on one cache, the cache
\* holds an entry for a name only if a geocode call for that name returned
\* coordinates, and the entry is the coordinates of the first such call;
\* entries are never overwritten or removed, and a call that returns None
\* leaves the cache as it was.
C13_CacheInvariant == [][pc = "resolver" => CacheStep]_vars

\* The cache holds the second answer for Paris, the previous call was a hit
\* on it, and a call for Texas has returned None after 3 geocode calls.
C13_Witness ==
    /\ pc = "resolver"
    /\ gc_pc = "ret"
    /\ location = Texas
    /\ coords = None
    /\ Len(GeocodeCalls) = 3
    /\ DOMAIN location_cache = {Paris}
    /\ location_cache[Paris] = <<33, -95>>
    /\ prev # <<>>
    /\ prev[1].location = Paris
    /\ prev[1].trace = <<>>
    /\ prev[1].coords = <<33, -95>>

====
